---- MODULE Spec2Model ----
(***************************************************************************)
(* Window2Wonder: the voice-triggered dispatch pipeline.                   *)
(*   wakeWord.py    WakeWordListener: the wake-word loop, per-model cooldown*)
(*   voice2text.py  VoiceListener: the voice-activity-gated recorder        *)
(*   display.py     find_first_live_stream: the liveness race; display_res *)
(*   main.py        change_stream: one capture/transcribe/search/race cycle *)
(* Time is counted in whole seconds, wake-word scores in tenths, durations  *)
(* of audio in milliseconds.                                                *)
(***************************************************************************)
EXTENDS Integers, Sequences, FiniteSets, TLC

VARIABLES
    entry,                \* which unit of the repository is being run
    models_path,          \* the directory the listener is constructed on
    model_files,          \* self.model_files
    wpc,                  \* WakeWordListener: position in __init__ / start_listening
    wexc,                 \* exception that left start_listening ("" = none)
    wPa,                  \* the PyAudio handle p of start_listening
    wStream,              \* the input stream of start_listening
    now,                  \* time.time() as last read by the loop
    last_detection_time,  \* self.last_detection_time: model -> time, NoTime = absent
    triggers,             \* callback invocations so far, <<model, current_time>>
    predictions,          \* the scores of the frame processed last (tenths)
    rpc,                  \* VoiceListener.record_audio: position
    rPa,                  \* the PyAudio handle p of record_audio
    rStream,              \* the input stream of record_audio
    audio_data,           \* chunks appended so far (sequence numbers of the reads)
    silent_chunks,        \* local silent_chunks
    voice_detected,       \* local voice_detected
    onset,                \* number of the first read classified as speech, 0 if none
    last_speech,          \* number of the last read classified as speech, 0 if none
    last_vad,             \* outcome of self.vad.is_speech on the last read, "" if none
    rfault,               \* what made stream.read raise in record_audio, "" if nothing
    cpc,                  \* change_stream: position in the cycle
    cexc,                 \* exception that left change_stream ("" = none)
    raw_text,             \* the joined segment texts, before strip()
    text,                 \* result of transcribe_speech()
    res,                  \* result of search(text)
    searches,             \* calls made to search
    plays,                \* urls handed to the player
    fpc,                  \* find_first_live_stream: position
    urls,                 \* its argument
    fut,                  \* state of the future of each url
    probe,                \* what the yt-dlp call of each check came to
    threads,              \* worker threads the executor has spawned
    yielded,              \* futures as_completed has handed to the loop
    cancelIdx,            \* position of the cancel loop
    live_url,             \* value returned by find_first_live_stream
    kpc,                  \* scraper.crawler: position
    runs,                 \* how many times the crawler was started
    queue_json,           \* content of queue.json (absent = empty)
    visited_json,         \* content of visited.json (absent = empty)
    queue,                \* local queue of crawler()
    visited,              \* local visited of crawler()
    current_url,          \* local current_url
    loaded,               \* the visited set load_state returned to this crawl
    calls,                \* calls of process_stream_page in this crawl, per url
    processed,            \* urls whose page was processed to the end, in any crawl
    discovered,           \* urls found as a link, in any crawl
    stream_file,          \* entries of streams.local.json (absent = none)
    streams_corrupt,      \* streams.local.json does not hold valid JSON
    save_calls,           \* direct calls made to save_stream
    save_arg,             \* the argument of the last direct call
    emb_cache,            \* embeddingCache.local.json: pairs <<text hash, vector>>
    emb_calls,            \* calls made to generate_embedding
    emb_arg,              \* the text of the last call
    emb_ret,              \* what the last call returned
    emb_api               \* the API request of the last call: "no", "ok", "failed"

wakeVars == <<models_path, model_files, wpc, wexc, wPa, wStream, now, last_detection_time, triggers, predictions>>

recVars == <<rpc, rPa, rStream, audio_data, silent_chunks, voice_detected,
             onset, last_speech, last_vad, rfault>>

cycleVars == <<cpc, cexc, raw_text, text, res, searches, plays>>

raceVars == <<fpc, urls, fut, probe, threads, yielded, cancelIdx, live_url>>

crawlVars == <<kpc, runs, queue_json, visited_json, queue, visited, current_url,
               loaded, calls, processed, discovered>>

storeVars == <<stream_file, streams_corrupt, save_calls, save_arg>>

embedVars == <<emb_cache, emb_calls, emb_arg, emb_ret, emb_api>>

vars == <<entry, wakeVars, recVars, cycleVars, raceVars, crawlVars, storeVars,
          embedVars>>

----------------------------------------------------------------------------
(* Bounds of the model *)

MaxTime == 7          \* the wake loop is explored up to this clock value
MaxAdvance == 3       \* seconds that may pass between two frames of the loop
MaxFrames == 69       \* chunks one record_audio call reads at most
MaxTextLen == 2       \* characters of a raw transcription
MaxResults == 2       \* items of a search result in a cycle
MaxCands == 6         \* urls of a direct call of find_first_live_stream
MaxFaultCands == 2    \* failing checks are explored in races of at most this many urls
MaxPages == 3         \* stream pages of the crawled site
MaxLinks == 2         \* links found on one page
MaxRuns == 2          \* starts of the crawler, the first one included
MaxSaves == 4         \* direct calls of save_stream
MaxEmbedCalls == 3    \* direct calls of generate_embedding

(* Program constants *)

cooldown_time == 2    \* wakeWord.py:50, seconds
Threshold == 5        \* wakeWord.py:98, prediction > 0.5, in tenths

CHUNK_DURATION_MS == 30           \* voice2text.py:27
SILENCE_THRESHOLD == 2            \* voice2text.py:29, seconds
max_silent_chunks == (SILENCE_THRESHOLD * 1000) \div CHUNK_DURATION_MS

max_workers == 5                  \* display.py:44

NoTime == 0 - 1         \* a model that is not a key of last_detection_time

Models == {"m1", "m2"}
ModelOrder == <<"m1", "m2">>      \* iteration order of predictions.items()
Scores == {4, 5, 6}               \* below, at and above the threshold

None == "<None>"                  \* Python's None, as a url
NoneText == <<"<None>">>          \* Python's None, as a text
NoUrl == "<no url>"               \* a search result item without a url key

Chars == {" ", "x"}
RawTexts == UNION {[1..n -> Chars] : n \in 0..MaxTextLen}

Pool == <<"a", "b", "c", "d", "e", "f", "g", "h">>
Prefix(n) == SubSeq(Pool, 1, n)

\* search() returns at most 'limit' items; an item may lack its url.
SearchResults ==
    {Prefix(n) : n \in 0..MaxResults} \cup {<<NoUrl>>, <<NoUrl, "b">>}

\* arguments of a direct call of find_first_live_stream
UrlLists == {Prefix(n) : n \in 0..MaxCands} \cup {<<"a", "a">>}

\* entry -> the callback the listener is constructed with
CallbackOf(e) == IF e = "wakeWord" THEN "example_callback" ELSE "change_stream"

----------------------------------------------------------------------------
(* WakeWordListener.start_listening *)

\* The cooldown test of one model at current_time t.
OutsideCooldownMutant(ldt, m, t) ==
    \/ ldt[m] = NoTime
    \/ t - ldt[m] >= cooldown_time

OutsideCooldown(ldt, m, t) ==
    \/ ldt[m] = NoTime
    \/ t - ldt[m] > cooldown_time

\* self.callback(base_model_name): example_callback takes the wake word and
\* returns; change_stream is declared without parameters, so calling it with
\* the wake word raises TypeError before its body runs.
CallbackRaises(cb) == cb = "change_stream"

\* The for loop over predictions.items() for one frame, from model index i.
\* acc = [ldt, trig, exc]; the loop is left at the first raising callback.
RECURSIVE DetectFromMutant(_, _, _, _, _)
DetectFromMutant(i, acc, scores, t, cb) ==
    IF i > Len(ModelOrder) THEN acc
    ELSE LET m == ModelOrder[i] IN
         IF scores[m] > Threshold
         THEN IF OutsideCooldown(acc.ldt, m, t)
              THEN LET upd == [acc EXCEPT !.ldt[m] = t,
                                          !.trig = Append(@, <<m, t>>)] IN
                   IF CallbackRaises(cb)
                   THEN [upd EXCEPT !.exc = "TypeError"]
                   ELSE DetectFromMutant(i + 1, upd, scores, t, cb)
              ELSE DetectFromMutant(i + 1, [acc EXCEPT !.ldt[m] = t], scores, t, cb)
         ELSE DetectFromMutant(i + 1, acc, scores, t, cb)

RECURSIVE DetectFrom(_, _, _, _, _)
DetectFrom(i, acc, scores, t, cb) ==
    IF i > Len(ModelOrder) THEN acc
    ELSE LET m == ModelOrder[i] IN
         IF scores[m] > Threshold
         THEN IF OutsideCooldown(acc.ldt, m, t)
              THEN LET upd == [acc EXCEPT !.ldt[m] = t,
                                          !.trig = Append(@, <<m, t>>)] IN
                   IF CallbackRaises(cb)
                   THEN [upd EXCEPT !.exc = "TypeError"]
                   ELSE DetectFrom(i + 1, upd, scores, t, cb)
              ELSE DetectFrom(i + 1, acc, scores, t, cb)
         ELSE DetectFrom(i + 1, acc, scores, t, cb)

\* A directory: whether the path exists, and the files os.listdir returns,
\* each <<name, extension>>.
NoDir == [exists |-> FALSE, files |-> <<>>]
ModelDirs ==
    { NoDir,
      [exists |-> TRUE, files |-> <<>>],
      [exists |-> TRUE, files |-> << <<"notes", "txt">> >>],
      [exists |-> TRUE,
       files |-> << <<"m1", "onnx">>, <<"notes", "txt">>, <<"m2", "onnx">> >>] }

\* file.endswith(".onnx")
IsOnnx(f) == f[2] = "onnx"

\* _find_model_files(): the .onnx files of the directory, if it exists.
FindModelFilesMutant(d) == IF d.exists THEN d.files ELSE <<>>

FindModelFiles(d) == IF d.exists THEN SelectSeq(d.files, IsOnnx) ELSE <<>>

\* WakeWordListener.__init__: raise ValueError when no model file was found,
\* else load the models; start_listening() is called next.
WInit ==
    /\ wpc = "init"
    /\ model_files' = FindModelFiles(models_path)
    /\ IF FindModelFiles(models_path) = <<>>
       THEN /\ wpc' = "raised"
            /\ wexc' = "ValueError"
       ELSE /\ wpc' = "open"
            /\ wexc' = wexc
    /\ UNCHANGED <<entry, crawlVars, storeVars, embedVars, models_path, wPa, wStream, now, last_detection_time,
                   triggers, predictions>>
    /\ UNCHANGED <<recVars, cycleVars, raceVars>>

\* p = pyaudio.PyAudio(); stream = p.open(...): outside the try block.
WOpen ==
    /\ wpc = "open"
    /\ \/ /\ wpc' = "listening"
          /\ wPa' = "live"
          /\ wStream' = "open"
          /\ wexc' = wexc
       \/ /\ wpc' = "raised"            \* p.open raises: no input device
          /\ wexc' = "OSError"
          /\ wPa' = "live"
          /\ wStream' = "none"
    /\ UNCHANGED <<entry, crawlVars, storeVars, embedVars, models_path, model_files, now, last_detection_time,
                   triggers, predictions>>
    /\ UNCHANGED <<recVars, cycleVars, raceVars>>

\* One iteration of the while loop: read, predict, the for loop, sleep.
WFrame ==
    /\ wpc = "listening"
    /\ now < MaxTime
    /\ \E dt \in 1..MaxAdvance, scores \in [Models -> Scores] :
         LET t == now + dt
             r == DetectFrom(1, [ldt |-> last_detection_time, trig |-> triggers,
                                 exc |-> ""],
                             scores, t, CallbackOf(entry))
         IN /\ now' = t
            /\ last_detection_time' = r.ldt
            /\ triggers' = r.trig
            /\ predictions' = scores
            /\ IF r.exc = ""
               THEN UNCHANGED <<wpc, wexc, wPa, wStream>>
               ELSE /\ wpc' = "raised"          \* finally: clean up, re-raise
                    /\ wexc' = r.exc
                    /\ wStream' = "closed"
                    /\ wPa' = "terminated"
    /\ UNCHANGED <<entry, crawlVars, storeVars, embedVars, models_path, model_files, recVars, cycleVars, raceVars>>

\* stream.read raises (a device error other than the ignored overflow).
WReadFault ==
    /\ wpc = "listening"
    /\ wpc' = "raised"
    /\ wexc' = "OSError"
    /\ wStream' = "closed"
    /\ wPa' = "terminated"
    /\ UNCHANGED <<entry, crawlVars, storeVars, embedVars, models_path, model_files, now, last_detection_time,
                   triggers, predictions>>
    /\ UNCHANGED <<recVars, cycleVars, raceVars>>

\* except KeyboardInterrupt: ... finally: clean up; the method returns.
WInterrupt ==
    /\ wpc = "listening"
    /\ wpc' = "stopped"
    /\ wStream' = "closed"
    /\ wPa' = "terminated"
    /\ UNCHANGED <<entry, crawlVars, storeVars, embedVars, models_path, model_files, wexc, now,
                   last_detection_time, triggers, predictions>>
    /\ UNCHANGED <<recVars, cycleVars, raceVars>>

----------------------------------------------------------------------------
(* VoiceListener.record_audio *)

\* One pass of the loop body after the read: append, classify, count.
\* vad is the outcome of self.vad.is_speech: "speech", "silence" or "error".
IsSpeechMutant(vad) == vad \in {"speech", "error"}

IsSpeech(vad) == vad = "speech"

\* if is_speech: silent_chunks = 0 / elif voice_detected: silent_chunks += 1
NextSilentMutant(is_speech, vd, sc) == IF is_speech THEN 0 ELSE sc + 1

NextSilent(is_speech, vd, sc) ==
    IF is_speech THEN 0 ELSE IF vd THEN sc + 1 ELSE sc

StopRecordingMutant(vd, sc) == vd /\ sc > max_silent_chunks

StopRecording(vd, sc) == vd /\ sc >= max_silent_chunks

\* What stream.read reports by raising: an input overflow, a device error.
ReadFaults == {"overflow", "device"}

\* Exceptions of record_audio leave listen_and_transcribe, transcribe_speech
\* and change_stream unhandled.
RecorderRaises(e) ==
    /\ rpc' = "raised"
    /\ cpc' = "raised"
    /\ cexc' = e

\* p = pyaudio.PyAudio(); stream = p.open(...): outside the try block.
ROpen ==
    /\ rpc = "open"
    /\ \/ /\ rpc' = "loop"
          /\ rPa' = "live"
          /\ rStream' = "open"
          /\ UNCHANGED <<cpc, cexc>>
       \/ /\ RecorderRaises("OSError")
          /\ rPa' = "live"
          /\ rStream' = "none"
    /\ UNCHANGED <<entry, crawlVars, storeVars, embedVars, wakeVars, audio_data, silent_chunks, voice_detected, onset,
                   last_speech, last_vad, rfault>>
    /\ UNCHANGED <<raw_text, text, res, searches, plays, raceVars>>

\* One iteration of the while loop; on break the finally block cleans up and
\* the method returns.
RFrame ==
    /\ rpc = "loop"
    /\ Len(audio_data) < MaxFrames
    /\ \E vad \in {"speech", "silence", "error"} :
         LET vd == voice_detected \/ IsSpeech(vad)
             sc == NextSilent(IsSpeech(vad), voice_detected, silent_chunks)
         IN /\ audio_data' = Append(audio_data, Len(audio_data) + 1)
            /\ voice_detected' = vd
            /\ onset' = IF ~voice_detected /\ IsSpeech(vad)
                        THEN Len(audio_data) + 1 ELSE onset
            /\ last_speech' = IF IsSpeech(vad) THEN Len(audio_data) + 1
                              ELSE last_speech
            /\ last_vad' = vad
            /\ silent_chunks' = sc
            /\ IF StopRecording(vd, sc)
               THEN /\ rpc' = "returned"
                    /\ rStream' = "closed"
                    /\ rPa' = "terminated"
               ELSE UNCHANGED <<rpc, rStream, rPa>>
    /\ UNCHANGED <<entry, crawlVars, storeVars, embedVars, wakeVars, rfault, cycleVars, raceVars>>

\* stream.read(self.CHUNK_SIZE) raises, on an input overflow (which is not
\* suppressed here) as on a device error; nothing in record_audio catches it.
RReadFault ==
    /\ rpc = "loop"
    /\ rfault' \in ReadFaults
    /\ RecorderRaises("OSError")
    /\ rStream' = "closed"
    /\ rPa' = "terminated"
    /\ UNCHANGED <<entry, crawlVars, storeVars, embedVars, wakeVars, audio_data, silent_chunks, voice_detected, onset,
                   last_speech, last_vad>>
    /\ UNCHANGED <<raw_text, text, res, searches, plays, raceVars>>

\* KeyboardInterrupt while recording: only the finally block runs.
RInterrupt ==
    /\ rpc = "loop"
    /\ RecorderRaises("KeyboardInterrupt")
    /\ rStream' = "closed"
    /\ rPa' = "terminated"
    /\ UNCHANGED <<entry, crawlVars, storeVars, embedVars, wakeVars, audio_data, silent_chunks, voice_detected, onset,
                   last_speech, last_vad, rfault>>
    /\ UNCHANGED <<raw_text, text, res, searches, plays, raceVars>>

----------------------------------------------------------------------------
(* main.change_stream with voice2text.transcribe_speech, vectorSearch.search *)
(* and display.display_res                                                  *)

\* str.strip() on a sequence of characters.
RECURSIVE LStrip(_)
LStrip(t) == IF t # <<>> /\ Head(t) = " " THEN LStrip(Tail(t)) ELSE t

RECURSIVE RStrip(_)
RStrip(t) ==
    IF t # <<>> /\ t[Len(t)] = " " THEN RStrip(SubSeq(t, 1, Len(t) - 1)) ELSE t

StripMutant(t) == t

Strip(t) == RStrip(LStrip(t))

\* Python truthiness of text and of live_url.
TruthyText(t) == t # NoneText /\ t # <<>>

TruthyUrlMutant(u) == u # ""

TruthyUrl(u) == u # None /\ u # ""

\* transcribe_speech(): VoiceListener(model_size="base"), then
\* listen_and_transcribe() starts record_audio.
CStart ==
    /\ cpc = "start"
    /\ cpc' = "capture"
    /\ rpc' = "open"
    /\ UNCHANGED <<entry, crawlVars, storeVars, embedVars, wakeVars, rPa, rStream, audio_data, silent_chunks,
                   voice_detected, onset, last_speech, last_vad, rfault, cexc, raw_text, text, res,
                   searches, plays, raceVars>>

\* listen_and_transcribe after record_audio returned, and the test of text in
\* change_stream.  The locals of record_audio are gone afterwards.
CTranscribe ==
    /\ cpc = "capture"
    /\ rpc = "returned"
    /\ rpc' = "off"
    /\ rPa' = "none"
    /\ rStream' = "none"
    /\ audio_data' = <<>>
    /\ silent_chunks' = 0
    /\ voice_detected' = FALSE
    /\ onset' = 0
    /\ last_speech' = 0
    /\ last_vad' = ""
    /\ rfault' = rfault
    /\ \/ /\ ~voice_detected             \* "No speech detected."
          /\ text' = NoneText
          /\ raw_text' = raw_text
          /\ cpc' = "done"
          /\ cexc' = cexc
       \/ /\ voice_detected
          /\ \E raw \in RawTexts :
               /\ raw_text' = raw
               /\ text' = Strip(raw)
               /\ cpc' = IF TruthyText(Strip(raw)) THEN "search" ELSE "done"
          /\ cexc' = cexc
       \/ /\ voice_detected              \* writing the file or the model fails
          /\ text' = text
          /\ raw_text' = raw_text
          /\ cpc' = "raised"
          /\ cexc' = "RuntimeError"
    /\ UNCHANGED <<entry, crawlVars, storeVars, embedVars, wakeVars, res, searches, plays, raceVars>>

\* [item["url"] for item in res if 'url' in item]
UrlsOfMutant(items) == items

RECURSIVE UrlsOf(_)
UrlsOf(items) ==
    IF items = <<>> THEN <<>>
    ELSE IF Head(items) = NoUrl THEN UrlsOf(Tail(items))
    ELSE <<Head(items)>> \o UrlsOf(Tail(items))

\* embed.generate_embedding. A vector is named, not spelled out; NoVec is
\* the None the function returns when the request fails.
Vectors == {"v1", "v2"}
NoVec == "<no vector>"

\* What client.embeddings.create comes to: a vector, or an exception.
ApiOutcomes == Vectors \cup {"failed"}

\* hashlib.md5(text.encode('utf-8')).hexdigest(): the digest of a text is
\* written as the text under the tag "md5"; it is not a text.
Hash(t) == <<"md5">> \o t

\* text_hash in cache
CacheHitMutant(cache, h) == FALSE

CacheHit(cache, h) == \E p \in cache : p[1] = h

\* cache[text_hash]
Lookup(cache, h) == (CHOOSE p \in cache : p[1] = h)[2]

\* generate_embedding(client, text) on the cache file as it is, with the
\* given outcome of the request if one is made: the cache file afterwards,
\* the value returned and what became of the request.
GenerateEmbedding(cache, t, outcome) ==
    IF CacheHit(cache, Hash(t))
    THEN [cache |-> cache, ret |-> Lookup(cache, Hash(t)), api |-> "no"]
    ELSE IF outcome = "failed"
    THEN [cache |-> cache, ret |-> NoVec, api |-> "failed"]
    ELSE [cache |-> cache \cup {<<Hash(t), outcome>>}, ret |-> outcome,
          api |-> "ok"]

\* Texts of the direct calls of generate_embedding.
EmbedTexts == {<<"x">>, <<"x", "x">>, <<" ", "x">>}

\* One direct call of generate_embedding.
EGenerate ==
    /\ entry = "generate_embedding"
    /\ emb_calls < MaxEmbedCalls
    /\ emb_calls' = emb_calls + 1
    /\ \E t \in EmbedTexts, outcome \in ApiOutcomes :
         LET g == GenerateEmbedding(emb_cache, t, outcome) IN
         /\ emb_arg' = t
         /\ emb_cache' = g.cache
         /\ emb_ret' = g.ret
         /\ emb_api' = g.api
    /\ UNCHANGED <<entry, wakeVars, recVars, cycleVars, raceVars, crawlVars, storeVars>>

\* res = search(text), followed by display_results(res): search embeds the
\* query with generate_embedding and raises ValueError when it got None.
CSearch ==
    /\ cpc = "search"
    /\ searches' = searches + 1
    /\ emb_calls' = emb_calls + 1
    /\ emb_arg' = text
    /\ \E outcome \in ApiOutcomes :
         LET g == GenerateEmbedding(emb_cache, text, outcome) IN
         /\ emb_cache' = g.cache
         /\ emb_ret' = g.ret
         /\ emb_api' = g.api
         /\ IF g.ret = NoVec
            THEN /\ cpc' = "raised"
                 /\ cexc' = "ValueError"
                 /\ res' = res
            ELSE /\ res' \in SearchResults
                 /\ cpc' = "display"
                 /\ cexc' = cexc
    /\ UNCHANGED <<entry, crawlVars, storeVars, wakeVars, recVars, raw_text, text,
                   plays, raceVars>>

\* display_res calls find_first_live_stream with the urls of the items that
\* have one, whatever their number.
CEnterRace ==
    /\ cpc = "display"
    /\ cpc' = "race"
    /\ fpc' = "submit"
    /\ urls' = UrlsOf(res)
    /\ fut' = [i \in 1..Len(UrlsOf(res)) |-> "new"]
    /\ probe' = [i \in 1..Len(UrlsOf(res)) |-> ""]
    /\ UNCHANGED <<entry, crawlVars, storeVars, embedVars, wakeVars, recVars, cexc, raw_text, text, res,
                   searches, plays, threads, yielded, cancelIdx, live_url>>

\* display_res after find_first_live_stream returned.  os.system is called
\* without its command argument, which raises TypeError.
CDisplay ==
    /\ cpc = "race"
    /\ fpc = "returned"
    /\ IF TruthyUrl(live_url)
       THEN /\ cpc' = "raised"
            /\ cexc' = "TypeError"
       ELSE /\ cpc' = "done"             \* "No active streams found"
            /\ cexc' = cexc
    /\ UNCHANGED <<entry, crawlVars, storeVars, embedVars, wakeVars, recVars, raw_text, text, res, searches, plays, raceVars>>

----------------------------------------------------------------------------
(* display.find_first_live_stream                                           *)
(* A future is "new" (not submitted), "pending" (queued), "running",        *)
(* "true" / "false" (finished with that result) or "cancelled".             *)

Futures == DOMAIN fut

Running == {i \in Futures : fut[i] = "running"}

Pending == {i \in Futures : fut[i] = "pending"}

Finished == {i \in Futures : fut[i] \in {"true", "false", "raised"}}

\* executor.submit: a thread is spawned unless one is idle or the pool is full.
SpawnMutant(n) ==
    IF n <= Cardinality(Running) + Cardinality(Pending) THEN n + 1 ELSE n

Spawn(n) ==
    IF n < max_workers /\ n <= Cardinality(Running) + Cardinality(Pending)
    THEN n + 1 ELSE n

\* The dict comprehension: one submit per url, then the as_completed loop.
FSubmit ==
    /\ fpc = "submit"
    /\ IF \E i \in Futures : fut[i] = "new"
       THEN LET i == CHOOSE j \in Futures :
                       fut[j] = "new" /\ \A k \in 1..(j - 1) : fut[k] # "new"
            IN /\ fut' = [fut EXCEPT ![i] = "pending"]
               /\ threads' = Spawn(threads)
               /\ fpc' = fpc
       ELSE /\ fpc' = "collect"
            /\ UNCHANGED <<fut, threads>>
    /\ UNCHANGED <<entry, crawlVars, storeVars, embedVars, wakeVars, recVars, cycleVars, urls, probe, yielded,
                   cancelIdx, live_url>>

\* A free worker thread takes the oldest queued work item.
FStart ==
    /\ \E i \in Pending :
         /\ \A k \in 1..(i - 1) : fut[k] # "pending"
         /\ Cardinality(Running) < threads
         /\ fut' = [fut EXCEPT ![i] = "running"]
    /\ UNCHANGED <<entry, crawlVars, storeVars, embedVars, wakeVars, recVars, cycleVars, fpc, urls, probe,
                   threads, yielded, cancelIdx, live_url>>

\* What the yt-dlp call of is_stream_live can come to: it prints True
\* ("live"), prints something else ("notlive"), exceeds timeout=10
\* ("timeout") or cannot be run ("error").
Failures == {"timeout", "error"}

ProbeOutcomes ==
    IF Len(urls) <= MaxFaultCands THEN {"live", "notlive"} \cup Failures
    ELSE {"live", "notlive"}

\* is_stream_live: "True" in result.stdout; except Exception: return False.
\* A future whose call raised would be "raised".
IsStreamLiveMutant(o) ==
    IF o = "live" THEN "true" ELSE IF o \in Failures THEN "raised" ELSE "false"

IsStreamLive(o) == IF o = "live" THEN "true" ELSE "false"

\* A running check comes to its end and sets the result of its future.
FComplete ==
    /\ \E i \in Running, o \in ProbeOutcomes :
         /\ probe' = [probe EXCEPT ![i] = o]
         /\ fut' = [fut EXCEPT ![i] = IsStreamLive(o)]
    /\ UNCHANGED <<entry, crawlVars, storeVars, embedVars, wakeVars, recVars, cycleVars, fpc, urls, threads,
                   yielded, cancelIdx, live_url>>

\* The url the loop returns for a finished future, if any.
WinnerMutant(i) == TRUE

Winner(i) == fut[i] = "true"

\* One pass of the for loop over as_completed: the result of a finished
\* future is read; a live one starts the cancel loop.
FCollect ==
    /\ fpc = "collect"
    /\ \E i \in Finished \ yielded :
         /\ yielded' = yielded \cup {i}
         /\ IF Winner(i)
            THEN /\ live_url' = urls[i]
                 /\ cancelIdx' = 1
                 /\ fpc' = "cancel"
            ELSE UNCHANGED <<live_url, cancelIdx, fpc>>
    /\ UNCHANGED <<entry, crawlVars, storeVars, embedVars, wakeVars, recVars, cycleVars, urls, probe, fut, threads>>

\* for f in future_to_url: if not f.done(): f.cancel() - a queued future is
\* cancelled, a running one is not; after the last one, return url.
FCancel ==
    /\ fpc = "cancel"
    /\ IF cancelIdx <= Len(urls)
       THEN /\ fut' = [fut EXCEPT ![cancelIdx] =
                          IF @ = "pending" THEN "cancelled" ELSE @]
            /\ cancelIdx' = cancelIdx + 1
            /\ fpc' = fpc
       ELSE /\ fpc' = "exit"
            /\ UNCHANGED <<fut, cancelIdx>>
    /\ UNCHANGED <<entry, crawlVars, storeVars, embedVars, wakeVars, recVars, cycleVars, urls, probe, threads, yielded,
                   live_url>>

\* as_completed is exhausted: every future was read and none was live.
ExhaustedMutantPartial == yielded = Finished

ExhaustedMutantNonEmpty == yielded # {} /\ yielded = Futures

Exhausted == yielded = Futures

FNoneLive ==
    /\ fpc = "collect"
    /\ Exhausted
    /\ live_url' = None
    /\ fpc' = "exit"
    /\ UNCHANGED <<entry, crawlVars, storeVars, embedVars, wakeVars, recVars, cycleVars, urls, probe, fut, threads,
                   yielded, cancelIdx>>

\* Leaving the with block: executor.shutdown(wait=True) joins the workers,
\* which first finish what runs and what is still queued.
ShutdownDone == Running = {} /\ Pending = {}

FExit ==
    /\ fpc = "exit"
    /\ ShutdownDone
    /\ fpc' = "returned"
    /\ UNCHANGED <<entry, crawlVars, storeVars, embedVars, wakeVars, recVars, cycleVars, urls, probe, fut, threads,
                   yielded, cancelIdx, live_url>>

\* KeyboardInterrupt reaches the main thread while it waits in as_completed:
\* no except clause of the function catches it, and the with block is left
\* through executor.shutdown(wait=True) as on a return.
FInterrupt ==
    /\ fpc = "collect"
    /\ fpc' = "interrupted"
    /\ UNCHANGED <<entry, crawlVars, storeVars, embedVars, wakeVars, recVars, cycleVars, urls, probe, fut, threads,
                   yielded, cancelIdx, live_url>>

\* The workers have been joined; the exception leaves find_first_live_stream
\* and, in a cycle, display_res and change_stream.
FRaise ==
    /\ fpc = "interrupted"
    /\ ShutdownDone
    /\ fpc' = "raised"
    /\ IF cpc = "race"
       THEN /\ cpc' = "raised"
            /\ cexc' = "KeyboardInterrupt"
       ELSE UNCHANGED <<cpc, cexc>>
    /\ UNCHANGED <<entry, crawlVars, storeVars, embedVars, wakeVars, recVars, raw_text, text, res, searches, plays,
                   urls, probe, fut, threads, yielded, cancelIdx, live_url>>

----------------------------------------------------------------------------
(* scraper.crawler with load_state, save_state, crawl_main_page and the     *)
(* result of process_stream_page                                            *)

PageUrls == {Pool[k] : k \in 1..MaxPages}

\* The hrefs found on a page, in document order; a page may link twice to
\* the same page and to itself.
LinkLists == UNION {[1..n -> PageUrls] : n \in 0..MaxLinks}

Range(q) == {q[k] : k \in DOMAIN q}

\* for link in ...: if link not in visited and link not in queue:
\*     queue.append(link)
RECURSIVE AppendNewMutant(_, _, _)
AppendNewMutant(q, v, links) ==
    IF links = <<>> THEN q
    ELSE AppendNewMutant(IF Head(links) \notin v THEN Append(q, Head(links)) ELSE q,
                         v, Tail(links))

RECURSIVE AppendNew(_, _, _)
AppendNew(q, v, links) ==
    IF links = <<>> THEN q
    ELSE AppendNew(IF Head(links) \notin v /\ Head(links) \notin Range(q)
                   THEN Append(q, Head(links)) ELSE q,
                   v, Tail(links))

\* A stream as process_stream_page builds it: here its name and its url.
\* NoStream is the absent stream (None).
NoStream == [name |-> None, url |-> None]
YoutubeUrls == {"y1", "y2"}
StreamNames == {"n1", "n2"}

\* What process_stream_page returns as "stream": None when no YouTube url was
\* found on the page.
PageStreams == {NoStream} \cup {[name |-> "n1", url |-> u] : u \in YoutubeUrls}

\* Arguments of a direct call of save_stream; the url may be empty.
StreamArgs ==
    {NoStream} \cup [name : StreamNames, url : YoutubeUrls \cup {""}]

\* {s.get('url', '') for s in existing_streams}
ExistingUrls(existing) == {existing[k].url : k \in DOMAIN existing}

\* save_stream's test before appending: stream['url'] and stream['url'] not
\* in existing_urls.
IsNewStreamMutant(existing, stream) == stream.url # ""

IsNewStream(existing, stream) ==
    stream.url # "" /\ stream.url \notin ExistingUrls(existing)

\* save_stream(stream): the entries of the file after the call. A file that
\* cannot be decoded counts as holding no stream.
SaveStream(file, corrupt, stream) ==
    LET existing == IF corrupt THEN <<>> ELSE file IN
    IF stream = NoStream THEN file
    ELSE IF IsNewStream(existing, stream) THEN Append(existing, stream)
    ELSE file

\* One direct call of save_stream. When it writes, the write may be cut short
\* (the process is stopped inside json.dump), which leaves a file that cannot
\* be decoded.
SSave ==
    /\ entry = "save_stream"
    /\ save_calls < MaxSaves
    /\ save_calls' = save_calls + 1
    /\ \E stream \in StreamArgs :
         /\ save_arg' = stream
         /\ LET after == SaveStream(stream_file, streams_corrupt, stream) IN
            \/ /\ stream_file' = after
               /\ streams_corrupt' = IF after # stream_file THEN FALSE
                                     ELSE streams_corrupt
            \/ /\ after # stream_file
               /\ stream_file' = <<>>
               /\ streams_corrupt' = TRUE
    /\ UNCHANGED <<entry, wakeVars, recVars, cycleVars, raceVars, crawlVars, embedVars>>

\* load_state(), then the choice between the main page and the saved queue.
KLoad ==
    /\ kpc = "load"
    /\ queue' = queue_json
    /\ visited' = visited_json
    /\ loaded' = visited_json
    /\ calls' = [u \in PageUrls |-> 0]
    /\ kpc' = IF queue_json = <<>> THEN "main" ELSE "loop"
    /\ UNCHANGED <<entry, wakeVars, recVars, cycleVars, raceVars, storeVars, embedVars, runs, queue_json,
                   visited_json, current_url, processed, discovered>>

\* crawl_main_page: the page cannot be loaded, or its links are appended.
KMain ==
    /\ kpc = "main"
    /\ kpc' = "loop"
    /\ \/ UNCHANGED <<queue, discovered>>
       \/ \E links \in LinkLists :
            /\ queue' = AppendNew(queue, visited, links)
            /\ discovered' = discovered \cup Range(links)
    /\ UNCHANGED <<entry, wakeVars, recVars, cycleVars, raceVars, storeVars, embedVars, runs, queue_json,
                   visited_json, visited, current_url, loaded, calls, processed>>

\* queue.popleft(); a visited url is skipped, another one is added to
\* visited before its page is processed.
KPop ==
    /\ kpc = "loop"
    /\ queue # <<>>
    /\ current_url' = Head(queue)
    /\ queue' = Tail(queue)
    /\ IF Head(queue) \in visited
       THEN UNCHANGED <<kpc, visited>>
       ELSE /\ visited' = visited \cup {Head(queue)}
            /\ kpc' = "page"
    /\ UNCHANGED <<entry, wakeVars, recVars, cycleVars, raceVars, storeVars, embedVars, runs, queue_json,
                   visited_json, loaded, calls, processed, discovered>>

\* process_stream_page(driver, current_url) and the rest of the iteration:
\* the page is processed and its links appended; or it cannot be loaded or
\* processing raises, which leaves no stream and no links; then save_state.
\* Or KeyboardInterrupt arrives during the call: the except Exception of the
\* iteration does not catch it, the finally block saves the state and the
\* crawler ends.
KPage ==
    /\ kpc = "page"
    /\ calls' = [calls EXCEPT ![current_url] = @ + 1]
    /\ \/ \E links \in LinkLists, stream \in PageStreams :
            /\ stream_file' = SaveStream(stream_file, streams_corrupt, stream)
            /\ queue' = AppendNew(queue, visited, links)
            /\ discovered' = discovered \cup Range(links)
            /\ processed' = processed \cup {current_url}
            /\ queue_json' = queue'
            /\ kpc' = "loop"
       \/ /\ queue_json' = queue
          /\ kpc' = "loop"
          /\ UNCHANGED <<queue, discovered, processed, stream_file>>
       \/ /\ queue_json' = queue
          /\ kpc' = "ended"
          /\ UNCHANGED <<queue, discovered, processed, stream_file>>
    /\ visited_json' = visited
    /\ UNCHANGED <<entry, wakeVars, recVars, cycleVars, raceVars, embedVars, runs,
                   visited, current_url, loaded, streams_corrupt, save_calls,
                   save_arg>>

\* The queue is empty, or KeyboardInterrupt arrives between two pages: the
\* finally block saves the state and the crawler ends.
KEnd ==
    /\ kpc = "loop"
    /\ kpc' = "ended"
    /\ queue_json' = queue
    /\ visited_json' = visited
    /\ UNCHANGED <<entry, wakeVars, recVars, cycleVars, raceVars, storeVars, embedVars, runs, queue,
                   visited, current_url, loaded, calls, processed, discovered>>

\* The script is started again and resumes from the two files.
KRestart ==
    /\ kpc = "ended"
    /\ runs < MaxRuns
    /\ runs' = runs + 1
    /\ kpc' = "load"
    /\ UNCHANGED <<entry, wakeVars, recVars, cycleVars, raceVars, storeVars, embedVars, queue_json,
                   visited_json, queue, visited, current_url, loaded, calls,
                   processed, discovered>>

----------------------------------------------------------------------------

\* The units run: wakeWord.py as a script (example_callback), the listener
\* main.py configures (callback change_stream), one call of change_stream(),
\* one call of display_res(res) and one call of find_first_live_stream(urls).
Entries == {"wakeWord", "listener", "change_stream", "display_res",
            "find_first_live_stream", "crawler", "save_stream",
            "generate_embedding"}

Init ==
    /\ entry \in Entries
    /\ models_path \in IF entry \in {"wakeWord", "listener"}
                      THEN ModelDirs ELSE {NoDir}
    /\ model_files = <<>>
    /\ wpc = IF entry \in {"wakeWord", "listener"} THEN "init" ELSE "off"
    /\ wexc = ""
    /\ wPa = "none"
    /\ wStream = "none"
    /\ now = 0
    /\ last_detection_time = [m \in Models |-> NoTime]
    /\ triggers = <<>>
    /\ predictions = [m \in Models |-> 0]
    /\ rpc = "off"
    /\ rPa = "none"
    /\ rStream = "none"
    /\ audio_data = <<>>
    /\ silent_chunks = 0
    /\ voice_detected = FALSE
    /\ onset = 0
    /\ last_speech = 0
    /\ last_vad = ""
    /\ rfault = ""
    /\ cpc = CASE entry = "change_stream" -> "start"
                [] entry = "display_res" -> "display"
                [] OTHER -> "off"
    /\ cexc = ""
    /\ raw_text = NoneText
    /\ text = NoneText
    /\ res \in IF entry = "display_res" THEN SearchResults ELSE {<<>>}
    /\ searches = 0
    /\ plays = <<>>
    /\ fpc = IF entry = "find_first_live_stream" THEN "submit" ELSE "off"
    /\ urls \in IF entry = "find_first_live_stream" THEN UrlLists ELSE {<<>>}
    /\ fut = [i \in 1..Len(urls) |-> "new"]
    /\ probe = [i \in 1..Len(urls) |-> ""]
    /\ threads = 0
    /\ yielded = {}
    /\ cancelIdx = 0
    /\ live_url = None
    /\ kpc = IF entry = "crawler" THEN "load" ELSE "off"
    /\ runs = IF entry = "crawler" THEN 1 ELSE 0
    /\ queue_json = <<>>
    /\ visited_json = {}
    /\ queue = <<>>
    /\ visited = {}
    /\ current_url = None
    /\ loaded = {}
    /\ calls = [u \in PageUrls |-> 0]
    /\ processed = {}
    /\ discovered = {}
    /\ stream_file = <<>>
    /\ streams_corrupt = FALSE
    /\ save_calls = 0
    /\ save_arg = NoStream
    /\ emb_cache = IF entry = "change_stream"
                   THEN {<<Hash(<<"x">>), "v1">>}    \* left by an earlier query
                   ELSE {}
    /\ emb_calls = 0
    /\ emb_arg = <<>>
    /\ emb_ret = NoVec
    /\ emb_api = "no"

Next ==
    \/ WInit
    \/ WOpen
    \/ WFrame
    \/ WReadFault
    \/ WInterrupt
    \/ ROpen
    \/ RFrame
    \/ RReadFault
    \/ RInterrupt
    \/ CStart
    \/ CTranscribe
    \/ CSearch
    \/ CEnterRace
    \/ CDisplay
    \/ FSubmit
    \/ FStart
    \/ FComplete
    \/ FCollect
    \/ FCancel
    \/ FNoneLive
    \/ FExit
    \/ FInterrupt
    \/ FRaise
    \/ KLoad
    \/ KMain
    \/ KPop
    \/ KPage
    \/ KEnd
    \/ KRestart
    \/ SSave
    \/ EGenerate

Spec == Init /\ [][Next]_vars

----------------------------------------------------------------------------
(* Properties *)

\* The triggers appended by the step now being taken.
NewTriggers == {triggers'[k] : k \in (Len(triggers) + 1)..Len(triggers')}

C1_Spacing ==
    \A i, j \in DOMAIN triggers :
        (i < j /\ triggers[i][1] = triggers[j][1])
            => triggers[j][2] - triggers[i][2] > cooldown_time

C1_SuppressStep ==
    \A m \in Models :
        ( /\ now' # now
          /\ predictions'[m] > Threshold
          /\ last_detection_time[m] # NoTime
          /\ now' - last_detection_time[m] <= cooldown_time )
        => /\ \A tr \in NewTriggers : tr[1] # m
           /\ last_detection_time'[m] = last_detection_time[m]

\* C1: a frame above the threshold within cooldown_time of the model's last
\* trigger emits no trigger for that model and leaves its last detection time
\* alone; hence any two triggers of one model are more than cooldown_time
\* apart.
C1_Cooldown == []C1_Spacing /\ [][C1_SuppressStep]_vars

\* A frame above the threshold exactly cooldown_time after the model's
\* trigger was suppressed.
C1_Witness ==
    /\ entry = "wakeWord"
    /\ predictions["m1"] > Threshold
    /\ last_detection_time["m1"] # NoTime
    /\ now - last_detection_time["m1"] = cooldown_time
    /\ Len(triggers) >= 1

\* C2: when find_first_live_stream has returned a url, it is the url of one
\* of its futures, that future finished with True and is the only live one
\* the loop read; when it returned None, no future the loop read was live.
C2_WinnerIsLive ==
    fpc = "returned" =>
        IF live_url # None
        THEN /\ \E i \in yielded : urls[i] = live_url /\ fut[i] = "true"
             /\ Cardinality({i \in yielded : fut[i] = "true"}) = 1
        ELSE \A i \in Futures : fut[i] # "true"

\* The second candidate won although the first one is live too: the winner
\* is the first live result read, not the best-ranked live candidate.
C2_Witness ==
    /\ fpc = "returned"
    /\ Len(urls) >= 2
    /\ live_url = urls[2]
    /\ fut[1] = "true"
    /\ urls[1] # urls[2]

\* C3: record_audio returns only when silent_chunks * CHUNK_DURATION_MS has
\* reached the silence timeout, and keeps recording while it has not.
C3_ExactTimeout ==
    /\ rpc = "returned"
           => silent_chunks * CHUNK_DURATION_MS >= SILENCE_THRESHOLD * 1000
    /\ (rpc = "loop" /\ voice_detected)
           => silent_chunks * CHUNK_DURATION_MS < SILENCE_THRESHOLD * 1000

\* C4: a cycle with a transcription and a live candidate has ended with the
\* player called exactly once, with the url the race returned.
C4_DispatchPlaysWinner ==
    ( /\ entry \in {"change_stream", "display_res"}
      /\ entry = "change_stream" => TruthyText(text)
      /\ cpc \in {"done", "raised"}
      /\ fpc = "returned"
      /\ TruthyUrl(live_url) )
    => (cpc = "done" /\ plays = <<live_url>>)

\* C5: a trigger of the listener main.py configures starts the capture step
\* and leaves the listener running, and no cycle is left by an exception
\* other than a device fault or the stop signal.
C5_CycleProgression ==
    /\ (entry = "listener" /\ triggers # <<>>)
           => (cpc # "off" /\ wpc \in {"listening", "stopped"})
    /\ cpc = "raised" => cexc \in {"OSError", "KeyboardInterrupt"}

\* C6: a constructed listener is left by an exception only for a device
\* fault, and change_stream only for a device fault or the stop signal.
C6_OnlyFatalFaultsTerminate ==
    /\ wpc = "raised" => wexc \in {"OSError", "ValueError"}
    /\ cpc = "raised" => cexc \in {"OSError", "KeyboardInterrupt"}

\* C7: when record_audio has ended, by itself or by cancellation, without a
\* frame classified as speech, it has returned voice_detected = False and an
\* empty buffer.
C7_NoSpeechReturnsEmpty ==
    ( /\ rpc \in {"returned", "raised"}
      /\ cexc \in {"", "KeyboardInterrupt"}
      /\ ~voice_detected )
    => (rpc = "returned" /\ audio_data = <<>>)

\* C8: once the live result was read and the cancel loop is through, the
\* race can return at once, whatever checks still run.
C8_EarlyExit ==
    (fpc = "exit" /\ live_url # None) => ENABLED FExit

\* C9: None is returned only after every future has finished with False and
\* was read; and when every check has returned False the result is None.
C9_NoneLive ==
    /\ (fpc \in {"exit", "returned"} /\ live_url = None)
           => \A i \in Futures : fut[i] = "false" /\ i \in yielded
    /\ (fpc = "returned" /\ \A i \in Futures : fut[i] = "false")
           => live_url = None

C9_Witness ==
    /\ fpc = "returned"
    /\ Len(urls) >= 2
    /\ live_url = None

\* C10: with no urls, no future exists, no worker thread is spawned, the
\* loop ends at once and the result is None.
C10_EmptyList ==
    (urls = <<>> /\ fpc # "off") =>
        /\ threads = 0
        /\ Futures = {}
        /\ fpc # "cancel"
        /\ fpc = "collect" => ENABLED FNoneLive
        /\ fpc = "exit" => ENABLED FExit
        /\ fpc \in {"exit", "returned"} => live_url = None

C10_Witness ==
    /\ entry = "find_first_live_stream"
    /\ urls = <<>>
    /\ fpc = "returned"
    /\ threads = 0

\* C11: a check that timed out or raised finishes its future with False; the
\* loop goes on reading the other futures, so None is returned only when all
\* were read, and a live result read afterwards is returned.
C11_FailureCountsAsFalse ==
    /\ \A i \in Futures : probe[i] \in Failures => fut[i] = "false"
    /\ (fpc \in {"exit", "returned"} /\ \E i \in yielded : probe[i] \in Failures)
           => IF live_url = None
              THEN yielded = Futures /\ \A i \in Futures : probe[i] # "live"
              ELSE \E i \in yielded : probe[i] = "live" /\ urls[i] = live_url

\* The failed check of the first url was read and the second url won.
\* (witness of C11)
C11_Witness ==
    /\ fpc = "returned"
    /\ Len(urls) = 2
    /\ probe[1] \in Failures
    /\ 1 \in yielded
    /\ live_url = urls[2]

AllSpaces(t) == \A k \in DOMAIN t : t[k] = " "

\* C12: as long as no transcription was produced, and when the one produced
\* is empty or only whitespace, change_stream has a falsy text, has not
\* called search, has not entered the race and has not called the player.
C12_EmptyTranscription ==
    (entry = "change_stream" /\ (raw_text = NoneText \/ AllSpaces(raw_text)))
    => /\ ~TruthyText(text)
       /\ searches = 0
       /\ fpc = "off"
       /\ plays = <<>>
       /\ cpc \in {"start", "capture", "done", "raised"}

\* A whitespace-only transcription ended the cycle without a search.
C12_Witness ==
    /\ entry = "change_stream"
    /\ raw_text = <<" ">>
    /\ cpc = "done"
    /\ searches = 0

NoUrls(items) == \A k \in DOMAIN items : items[k] = NoUrl

\* C13 as claimed: after a search result without candidates the race routine
\* is not entered.
C13_NoRaceOnEmptyResult ==
    (cpc \in {"race", "done"} /\ res = <<>>) => fpc = "off"

\* C13 as amended: with a search result that holds no url, display_res enters
\* find_first_live_stream without urls; no future is created, no worker
\* thread is spawned, the result is None, the player is not called, and the
\* cycle ends by returning once the race has returned.
C13_EmptyResultRace ==
    (cpc \in {"race", "done", "raised"} /\ fpc # "off" /\ NoUrls(res))
    => /\ urls = <<>>
       /\ Futures = {}
       /\ threads = 0
       /\ plays = <<>>
       /\ fpc \in {"exit", "returned"} => live_url = None
       /\ cpc = "done" => fpc = "returned"
       /\ cpc = "raised" => cexc = "KeyboardInterrupt"

\* A cycle whose search returned nothing went through the race and ended.
C13_Witness ==
    /\ entry = "change_stream"
    /\ searches = 1
    /\ res = <<>>
    /\ fpc = "returned"
    /\ cpc = "done"

\* C14: when the race returned None after checking candidates, display_res
\* takes the "No active streams found" branch: the cycle ends by returning,
\* without an exception and without a call of the player.
C14_NoActiveMatch ==
    (cpc # "off" /\ fpc = "returned" /\ live_url = None)
    => /\ cpc \in {"race", "done"}
       /\ cpc = "race" => ENABLED CDisplay
       /\ cexc = ""
       /\ plays = <<>>

\* A cycle whose candidates were all checked and found not live has ended.
C14_Witness ==
    /\ cpc = "done"
    /\ Len(urls) >= 1
    /\ yielded = Futures
    /\ \A i \in Futures : fut[i] = "false"
    /\ live_url = None

\* C15: the buffer record_audio returns begins with the first read that was
\* classified as speech; no earlier read is in it.
C15_UtteranceFromOnset ==
    rpc = "returned" => (audio_data # <<>> /\ Head(audio_data) = onset)

\* C17: a read of the recorder that reports an input overflow is skipped and
\* the recording loop goes on; record_audio is not left by it.
C17_OverflowRecoverable ==
    rfault = "overflow" => (rpc = "loop" /\ cpc = "capture")

\* C16: in the listener main.py configures, the wake-word loop scores no
\* frame while a cycle is under way, and a trigger does not end the loop: after
\* a trigger the loop is listening or was stopped, unless the device failed.
C16_LoopPausedNotDestroyed ==
    entry = "listener" =>
        /\ cpc \notin {"off", "done", "raised"} => ~ENABLED WFrame
        /\ (triggers # <<>> /\ wexc # "OSError") => wpc \in {"listening", "stopped"}

\* C18: when start_listening or record_audio has exited, by return or by
\* exception, the PyAudio handle it created is terminated and the stream it
\* opened is closed.
C18_DeviceReleased ==
    /\ wpc \in {"stopped", "raised"}
           => (wPa # "live" /\ wStream # "open")
    /\ rpc \in {"returned", "raised"}
           => (rPa # "live" /\ rStream # "open")

NoModelFile(d) == ~d.exists \/ \A k \in DOMAIN d.files : d.files[k][2] # "onnx"

\* C19: on a models directory that is missing or holds no .onnx file the
\* constructor raises ValueError: nothing is opened, no frame is read, and a
\* listener that opens the device or listens has at least one model file,
\* each an .onnx file.
C19_NoModelsFailsFast ==
    /\ (entry \in {"wakeWord", "listener"} /\ NoModelFile(models_path))
           => /\ wpc \in {"init", "raised"}
              /\ wpc = "raised" => wexc = "ValueError"
              /\ wPa = "none" /\ wStream = "none"
              /\ now = 0 /\ triggers = <<>>
    /\ wpc \in {"open", "listening"}
           => /\ model_files # <<>>
              /\ \A k \in DOMAIN model_files : model_files[k][2] = "onnx"

\* Construction on a directory with files but no model file has failed.
C19_Witness ==
    /\ models_path.exists
    /\ models_path.files # <<>>
    /\ NoModelFile(models_path)
    /\ wpc = "raised"
    /\ wexc = "ValueError"

\* C20: once the wait of the race was interrupted by the caller's stop
\* signal, no check that had not begun is started any more, and the race
\* gives no url.
C20_CancelStopsWorkers ==
    fpc \in {"interrupted", "raised"} => (~ENABLED FStart /\ live_url = None)

\* C21: once the loop has read a true result, no check that is still queued
\* begins to run, whether the cancel loop has reached it or not, and none
\* begins after the race has returned.
C21_NoStartStep ==
    fpc \in {"cancel", "exit", "returned"}
        => \A i \in Futures : fut[i] = "pending" => fut'[i] # "running"

C21_QueuedNeverRun == [][C21_NoStartStep]_vars

C22_Bounded ==
    /\ DOMAIN fut = 1..Len(urls)
    /\ fpc \notin {"off", "submit"} => \A i \in Futures : fut[i] # "new"
    /\ threads <= max_workers
    /\ Cardinality(Running) <= threads
    /\ \A i \in Futures : fut[i] = "pending" =>
           (fpc = "submit" \/ Cardinality(Running) = threads \/ ENABLED FStart)

C22_OnceStep ==
    \A i \in DOMAIN fut \cap DOMAIN fut' :
        /\ fut[i] \in {"true", "false", "cancelled"} => fut'[i] = fut[i]
        /\ fut[i] = "running" => fut'[i] \in {"running", "true", "false"}
        /\ fut'[i] = "running" => fut[i] \in {"pending", "running"}

\* C22: the race holds one future per url of its argument, all submitted
\* before the results are read; at most max_workers threads exist and no more
\* checks run than there are threads, the others stay queued; a check begins
\* only from the queue and a finished or cancelled one never runs again.
C22_BoundedConcurrency == []C22_Bounded /\ [][C22_OnceStep]_vars

\* All workers are busy and a check waits in the queue.
C22_Witness ==
    /\ Cardinality(Running) = max_workers
    /\ Pending # {}
    /\ fpc = "collect"

\* The step reads one more chunk in the recording loop.
ReadStep == rpc = "loop" /\ Len(audio_data') = Len(audio_data) + 1

C23_Counter ==
    /\ ~voice_detected => (silent_chunks = 0 /\ last_speech = 0)
    /\ voice_detected
           => (last_speech >= 1 /\ silent_chunks = Len(audio_data) - last_speech)

C23_CounterStep ==
    ReadStep =>
        /\ last_vad' = "speech" => silent_chunks' = 0
        /\ (last_vad' # "speech" /\ voice_detected)
               => silent_chunks' = silent_chunks + 1
        /\ (last_vad' # "speech" /\ ~voice_detected) => silent_chunks' = 0

\* C23: silent_chunks is 0 until the first speech chunk, every speech chunk
\* sets it to 0, every other chunk read after the first speech chunk adds 1,
\* and chunks read before it add nothing; so after onset it is the number of
\* chunks read since the last speech chunk.
C23_SilenceCounter == []C23_Counter /\ [][C23_CounterStep]_vars

\* Silence before onset was not counted, silence after speech was.
C23_Witness ==
    /\ rpc = "loop"
    /\ onset = 3
    /\ last_speech = 5
    /\ Len(audio_data) = 8
    /\ silent_chunks = 3

C24_FailureStep ==
    (ReadStep /\ last_vad' = "error") =>
        /\ voice_detected' = voice_detected
        /\ onset' = onset /\ last_speech' = last_speech
        /\ silent_chunks' = IF voice_detected THEN silent_chunks + 1 ELSE 0
        /\ cexc' = cexc
        /\ rpc' = IF voice_detected /\ silent_chunks' >= max_silent_chunks
                  THEN "returned" ELSE "loop"

\* C24: a chunk on which vad.is_speech raises is handled as a chunk that is
\* not speech: nothing is raised, voice_detected is not set, the counter moves
\* as for silence, and before the first speech chunk the loop goes on.
C24_VadFailureIsSilence == [][C24_FailureStep]_vars

\* The classification failed before any speech and the recorder still listens.
C24_Witness ==
    /\ rpc = "loop"
    /\ last_vad = "error"
    /\ ~voice_detected
    /\ Len(audio_data) >= 2

C25_EachModelStep ==
    \A m \in Models :
        ( /\ now' # now
          /\ predictions'[m] > Threshold
          /\ \/ last_detection_time[m] = NoTime
             \/ now' - last_detection_time[m] > cooldown_time )
        => <<m, now'>> \in NewTriggers

\* C25: in a frame, every model whose score is above the threshold and whose
\* own last detection is absent or more than cooldown_time ago has the
\* callback called for it, whatever happens to the other models.
C25_EachModelTriggers == [][C25_EachModelStep]_vars

C26_FrameStep ==
    \A m \in Models :
        /\ last_detection_time'[m] # last_detection_time[m]
               => /\ <<m, now'>> \in NewTriggers
                  /\ last_detection_time'[m] = now'
                  /\ last_detection_time'[m] > last_detection_time[m]
        /\ (now' # now /\ predictions'[m] <= Threshold)
               => last_detection_time'[m] = last_detection_time[m]
        /\ ( /\ now' # now
             /\ last_detection_time[m] # NoTime
             /\ now' - last_detection_time[m] <= cooldown_time )
               => last_detection_time'[m] = last_detection_time[m]

\* C26: last_detection_time of a model changes only in a frame that calls the
\* callback for that model, to the time of that frame, which is later than
\* the time stored before; a score at or below the threshold, a detection
\* within the cooldown and a trigger of another model leave it as it is.
C26_CooldownFrame == [][C26_FrameStep]_vars

\* A detection of m1 within its cooldown, in a frame that triggered m2, left
\* the time of m1 alone.
C26_Witness ==
    /\ entry = "wakeWord"
    /\ predictions["m1"] > Threshold
    /\ predictions["m2"] > Threshold
    /\ last_detection_time["m1"] # NoTime
    /\ last_detection_time["m1"] < now
    /\ last_detection_time["m2"] = now

C27_OneCycleStep ==
    (entry = "listener" /\ NewTriggers # {})
        => (Cardinality(NewTriggers) = 1 /\ cpc' \notin {"off", "raised"})

\* C27: in the listener main.py configures, a frame that triggers calls the
\* callback once and thereby starts one cycle.
C27_OneCyclePerFrame == [][C27_OneCycleStep]_vars

NoDuplicates(q) == \A i, j \in DOMAIN q : q[i] = q[j] => i = j

C29_Once ==
    /\ \A u \in PageUrls : calls[u] <= 1
    /\ \A u \in loaded : calls[u] = 0
    /\ NoDuplicates(queue)
    /\ NoDuplicates(queue_json)

C29_AppendStep ==
    kpc \in {"main", "page"} =>
        \A u \in Range(queue') \ Range(queue) : u \notin visited

\* C29: in a crawl, resumed or not, process_stream_page is called at most
\* once for a url and not at all for a url of the visited set that was
\* loaded; a url is appended to the queue only when it is neither visited nor
\* in the queue, so the queue, in memory and saved, holds no url twice.
C29_VisitOnce == []C29_Once /\ [][C29_AppendStep]_vars

\* A resumed crawl has processed a page after loading a visited set, with a
\* url waiting in the queue.
C29_Witness ==
    /\ runs = 2
    /\ loaded # {}
    /\ \E u \in PageUrls : calls[u] = 1
    /\ queue # <<>>

\* C30: whenever the crawler has ended and saved its state, every url saved
\* as visited has had its page processed to the end, and every discovered url
\* whose page was not processed is in the saved queue.
C30_ProgressSurvives ==
    kpc = "ended" =>
        /\ visited_json \subseteq processed
        /\ (discovered \ processed) \subseteq Range(queue_json)

C31_Unique ==
    /\ \A i, j \in DOMAIN stream_file :
           stream_file[i].url = stream_file[j].url => i = j
    /\ \A i \in DOMAIN stream_file : stream_file[i].url \notin {"", None}

C31_NoChangeStep ==
    ( /\ save_calls' = save_calls + 1
      /\ \/ save_arg' = NoStream
         \/ save_arg'.url = ""
         \/ save_arg'.url \in ExistingUrls(stream_file) )
    => (stream_file' = stream_file /\ streams_corrupt' = streams_corrupt)

C32_OneVectorPerHash ==
    \A p, q \in emb_cache : p[1] = q[1] => p = q

C32_CallStep ==
    emb_calls' = emb_calls + 1 =>
        LET h == Hash(emb_arg')
            cached == \E p \in emb_cache : p[1] = h
        IN /\ emb_api' # "no" => ~cached
           /\ cached => /\ emb_api' = "no"
                        /\ <<h, emb_ret'>> \in emb_cache
                        /\ emb_cache' = emb_cache
           /\ emb_api' = "failed" => (emb_ret' = NoVec /\ emb_cache' = emb_cache)
           /\ emb_api' = "ok" => /\ emb_ret' \in Vectors
                                 /\ emb_cache' = emb_cache \cup {<<h, emb_ret'>>}

C32_KeepStep == emb_cache \subseteq emb_cache'

\* C32: a call of generate_embedding makes a request only when the hash of
\* its text is not in the cache; a text whose hash is in the cache gets the
\* cached vector and the cache stays as it is; a failed request gives None and
\* leaves the cache as it is; a successful one stores its vector, and no
\* stored vector is ever replaced or removed.
C32_EmbeddingCache ==
    []C32_OneVectorPerHash /\ [][C32_CallStep /\ C32_KeepStep]_vars

\* A text cached by one successful call was served from the cache.
C32_Witness ==
    /\ entry = "generate_embedding"
    /\ emb_calls = 3
    /\ emb_api = "no"
    /\ emb_cache = {<<Hash(emb_arg), emb_ret>>}

====
